---- MODULE Spec2Model ----
(***************************************************************************)
(* A model of chronicle (owenkobasz/chronicle): the photo organizer of     *)
(* src/chronicle/organize_photos.py and the settings store of              *)
(* src/chronicle/settings.py.                                              *)
(*                                                                         *)
(* Python strings are modelled as sequences of one-character strings, so   *)
(* that strip, replace, split, capitalize, lower and the f-string          *)
(* formatting of the code are computed character by character.             *)
(***************************************************************************)
EXTENDS Integers, Sequences, FiniteSets, TLC

(***************************************************************************)
(* Python str primitives.                                                  *)
(***************************************************************************)
UpperChars ==
    << "A", "B", "C", "D", "E", "F", "G", "H", "I", "J", "K", "L", "M",
       "N", "O", "P", "Q", "R", "S", "T", "U", "V", "W", "X", "Y", "Z" >>

LowerChars ==
    << "a", "b", "c", "d", "e", "f", "g", "h", "i", "j", "k", "l", "m",
       "n", "o", "p", "q", "r", "s", "t", "u", "v", "w", "x", "y", "z" >>

DigitChars ==
    << "0", "1", "2", "3", "4", "5", "6", "7", "8", "9" >>

\* None, as distinct from every str (a str holds one-character strings only).
None == << "None" >>

IsNone(s) == s = None

\* Python truthiness of an Optional[str]: None and "" are falsy.
Truthy(s) == ~IsNone(s) /\ s # << >>

IsUpperChar(c) == \E i \in 1..26 : UpperChars[i] = c

IsLowerChar(c) == \E i \in 1..26 : LowerChars[i] = c

IsDigitChar(c) == \E i \in 1..10 : DigitChars[i] = c

IsSpaceChar(c) == c \in {" ", "\t", "\n"}

DigitVal(c) == (CHOOSE i \in 1..10 : DigitChars[i] = c) - 1

LowerChar(c) ==
    IF IsUpperChar(c)
    THEN LowerChars[CHOOSE i \in 1..26 : UpperChars[i] = c]
    ELSE c

UpperChar(c) ==
    IF IsLowerChar(c)
    THEN UpperChars[CHOOSE i \in 1..26 : LowerChars[i] = c]
    ELSE c

\* str.lower()
StrLower(s) == [i \in 1..Len(s) |-> LowerChar(s[i])]

\* str.upper()
StrUpper(s) == [i \in 1..Len(s) |-> UpperChar(s[i])]

\* str.capitalize(): first character upper-cased, the rest lower-cased.
Capitalize(s) ==
    [i \in 1..Len(s) |-> IF i = 1 THEN UpperChar(s[i]) ELSE LowerChar(s[i])]

\* s[from:] (1-based, from may be Len(s)+1)
Drop(s, n) == SubSeq(s, n + 1, Len(s))

\* str.startswith(p)
StartsWith(s, p) == Len(p) <= Len(s) /\ SubSeq(s, 1, Len(p)) = p

\* p in s
Contains(s, p) ==
    \E i \in 0..(Len(s) - Len(p)) : SubSeq(s, i + 1, i + Len(p)) = p

RECURSIVE LStripSet(_, _)
LStripSet(s, cs) ==
    IF s # << >> /\ s[1] \in cs THEN LStripSet(Tail(s), cs) ELSE s

RECURSIVE RStripSet(_, _)
RStripSet(s, cs) ==
    IF s # << >> /\ s[Len(s)] \in cs
    THEN RStripSet(SubSeq(s, 1, Len(s) - 1), cs)
    ELSE s

\* str.strip(): whitespace off both ends
Strip(s) == RStripSet(LStripSet(s, {" ", "\t", "\n"}), {" ", "\t", "\n"})

\* str.strip(chars)
StripChars(s, cs) == RStripSet(LStripSet(s, cs), cs)

\* str.replace(old, new), old non-empty: left to right, non-overlapping
RECURSIVE Replace(_, _, _)
Replace(s, old, new) ==
    IF s = << >> THEN << >>
    ELSE IF StartsWith(s, old)
         THEN new \o Replace(Drop(s, Len(old)), old, new)
         ELSE << s[1] >> \o Replace(Tail(s), old, new)

\* the first whitespace-delimited word of a str without leading whitespace
RECURSIVE TakeWord(_)
TakeWord(s) ==
    IF s = << >> \/ IsSpaceChar(s[1]) THEN << >>
    ELSE << s[1] >> \o TakeWord(Tail(s))

\* str.split(): the words between runs of whitespace, as a sequence of strs
RECURSIVE SplitWS(_)
SplitWS(s) ==
    LET t == LStripSet(s, {" ", "\t", "\n"})
        w == TakeWord(t)
    IN  IF t = << >> THEN << >>
        ELSE << w >> \o SplitWS(Drop(t, Len(w)))

\* the prefix of s before the first occurrence of character c
RECURSIVE TakeUntil(_, _)
TakeUntil(s, c) ==
    IF s = << >> \/ s[1] = c THEN << >>
    ELSE << s[1] >> \o TakeUntil(Tail(s), c)

\* str.split(c) for a one-character separator: empty fields are kept
RECURSIVE SplitOn(_, _)
SplitOn(s, c) ==
    LET w == TakeUntil(s, c)
    IN  IF Len(w) = Len(s) THEN << w >>
        ELSE << w >> \o SplitOn(Drop(s, Len(w) + 1), c)

\* " ".join(parts) for a separator str
RECURSIVE Join(_, _)
Join(parts, sep) ==
    IF parts = << >> THEN << >>
    ELSE IF Len(parts) = 1 THEN parts[1]
    ELSE parts[1] \o sep \o Join(Tail(parts), sep)

\* The str of a sequence of characters as one TLA+ string: the form in which
\* the state holds the strs that are only compared or joined, never scanned.
RECURSIVE Str(_)
Str(cs) == IF cs = << >> THEN "" ELSE cs[1] \o Str(Tail(cs))

\* while "__" in s: s = s.replace("__", "_")
RECURSIVE CollapseUnderscores(_)
CollapseUnderscores(s) ==
    IF Contains(s, << "_", "_" >>)
    THEN CollapseUnderscores(Replace(s, << "_", "_" >>, << "_" >>))
    ELSE s

AnyDigit(s) == \E i \in 1..Len(s) : IsDigitChar(s[i])

(***************************************************************************)
(* normalize_camera_name (organize_photos.py 98-179).                      *)
(***************************************************************************)
UnknownCamera ==
    << "U", "n", "k", "n", "o", "w", "n", "C", "a", "m", "e", "r", "a" >>

Corporation == << "C", "o", "r", "p", "o", "r", "a", "t", "i", "o", "n" >>
IncDot == << "I", "n", "c", "." >>
Inc == << "I", "n", "c" >>
Company == << "C", "o", "m", "p", "a", "n", "y" >>
LtdDot == << "L", "t", "d", "." >>
Ltd == << "L", "t", "d" >>

\* the suffix removals of clean(), in the order the code applies them
StripSuffixTokens(s) ==
    Replace(Replace(Replace(Replace(Replace(Replace(s,
        Corporation, << >>), IncDot, << >>), Inc, << >>),
        Company, << >>), LtdDot, << >>), Ltd, << >>)

BrandTokens ==
    { << "i", "p", "h", "o", "n", "e" >>,
      << "i", "p", "a", "d" >>,
      << "d", "j", "i" >>,
      << "g", "o", "p", "r", "o" >>,
      << "s", "o", "n", "y" >>,
      << "c", "a", "n", "o", "n" >>,
      << "n", "i", "k", "o", "n" >>,
      << "f", "u", "j", "i", "f", "i", "l", "m" >>,
      << "o", "l", "y", "m", "p", "u", "s" >>,
      << "p", "a", "n", "a", "s", "o", "n", "i", "c" >>,
      << "p", "e", "n", "t", "a", "x" >>,
      << "l", "e", "i", "c", "a" >>,
      << "h", "a", "s", "s", "e", "l", "b", "l", "a", "d" >> }

\* the per-word branch of clean(): brand names and ordinary words are
\* capitalized, Sony model numbers are upper-cased
CleanPart(part) ==
    IF StrLower(part) \in BrandTokens THEN Capitalize(part)
    ELSE IF StartsWith(StrLower(part), << "i", "l", "c", "e", "-" >>)
            \/ StartsWith(StrLower(part), << "d", "s", "c", "-" >>)
         THEN StrUpper(part)
         ELSE Capitalize(part)

CleanParts(parts) == [i \in 1..Len(parts) |-> CleanPart(parts[i])]

\* for ch in (" ", "/", "\\", "-"): s = s.replace(ch, "_")
Underscored(s) ==
    [i \in 1..Len(s) |-> IF s[i] \in {" ", "/", "\\", "-"} THEN "_" ELSE s[i]]

\* clean(s) of normalize_camera_name
Clean(s) ==
    LET a == Strip(StripSuffixTokens(Strip(s)))
        b == Join(CleanParts(SplitWS(a)), << " " >>)
    IN  StripChars(CollapseUnderscores(Underscored(b)), {"_"})

\* the first "_"-separated part holding IPHONE and a digit, or the model
RECURSIVE FirstIPhonePart(_, _)
FirstIPhonePart(parts, model) ==
    IF parts = << >> THEN model
    ELSE IF Contains(StrUpper(parts[1]), << "I", "P", "H", "O", "N", "E" >>)
            /\ AnyDigit(parts[1])
         THEN Replace(parts[1], << "_" >>, << >>)
         ELSE FirstIPhonePart(Tail(parts), model)

\* the alias chain of normalize_camera_name (146-172)
ModelAlias(m) ==
    IF Contains(m, << "I", "L", "C", "E", "_", "7", "M", "3" >>)
    THEN << "A", "7", "I", "I", "I" >>
    ELSE IF Contains(m, << "I", "L", "C", "E", "_", "7", "M", "4" >>)
    THEN << "A", "7", "I", "V" >>
    ELSE IF Contains(m, << "I", "L", "C", "E", "_", "7", "R", "M", "3" >>)
            \/ Contains(m, << "I", "L", "C", "E", "_", "7", "R", "M", "3", "A" >>)
    THEN << "A", "7", "R", "I", "I", "I" >>
    ELSE IF Contains(m, << "I", "L", "C", "E", "_", "7", "R", "M", "4" >>)
    THEN << "A", "7", "R", "I", "V" >>
    ELSE IF Contains(m, << "I", "L", "C", "E", "_", "7", "R", "M", "5" >>)
    THEN << "A", "7", "R", "V" >>
    ELSE IF Contains(m, << "I", "L", "C", "E", "_", "9" >>)
    THEN << "A", "9" >>
    ELSE IF Contains(m, << "I", "L", "C", "E", "_", "1" >>)
    THEN << "A", "1" >>
    ELSE IF Contains(StrUpper(m), << "M", "A", "V", "I", "C" >>)
            /\ Contains(m, << "3" >>)
    THEN << "M", "a", "v", "i", "c", "3" >>
    ELSE IF Contains(StrUpper(m), << "M", "A", "V", "I", "C" >>)
            /\ Contains(m, << "2" >>)
    THEN << "M", "a", "v", "i", "c", "2" >>
    ELSE IF Contains(StrUpper(m), << "I", "P", "H", "O", "N", "E" >>)
    THEN FirstIPhonePart(SplitOn(m, "_"), m)
    ELSE m

\* line 179 without its last operand
MakeOrModel_no_fallback(make, model_normalized) ==
    IF make # << >> THEN make ELSE model_normalized

\* return make or model_normalized or "UnknownCamera"  (179)
MakeOrModel(make, model_normalized) ==
    IF make # << >> THEN make
    ELSE IF model_normalized # << >> THEN model_normalized
    ELSE UnknownCamera

normalize_camera_name(raw_make, raw_model) ==
    IF ~Truthy(raw_make) /\ ~Truthy(raw_model) THEN UnknownCamera
    ELSE
      LET make == IF Truthy(raw_make) THEN Clean(raw_make) ELSE << >>
          model == IF Truthy(raw_model) THEN Clean(raw_model) ELSE << >>
          model_normalized == ModelAlias(model)
      IN  IF make # << >> /\ model_normalized # << >>
          THEN IF StartsWith(StrLower(model_normalized), StrLower(make))
               THEN model_normalized
               ELSE make \o << "_" >> \o model_normalized
          ELSE MakeOrModel(make, model_normalized)

(***************************************************************************)
(* Extension sets and the classifier (organize_photos.py 16-53, 204-226).  *)
(***************************************************************************)
E2(a, b) == << ".", a, b >>

E3(a, b, c) == << ".", a, b, c >>

E4(a, b, c, d) == << ".", a, b, c, d >>

PHOTO_EXTENSIONS ==
    { E3("j","p","g"), E4("j","p","e","g"), E3("p","n","g"), E4("h","e","i","c"),
      E3("t","i","f"), E4("t","i","f","f"), E3("b","m","p"), E3("g","i","f") }

RAW_EXTENSIONS ==
    { E3("c","r","2"), E3("c","r","3"), E3("n","e","f"), E3("n","r","w"),
      E3("a","r","w"), E3("s","r","f"), E3("s","r","2"), E3("o","r","f"),
      E3("r","a","f"), E3("r","w","2"), E3("d","n","g"), E3("p","e","f"),
      E3("x","3","f"), E3("3","f","r"), E3("m","e","f"), E3("e","r","f"),
      E3("k","d","c"), E3("d","c","r"), E3("m","o","s"), E3("m","r","w"),
      E3("r","a","w"), E3("r","w","l"), E3("s","r","w") }

JPG_EXTENSIONS == { E3("j","p","g"), E4("j","p","e","g") }

VIDEO_EXTENSIONS ==
    { E3("m","p","4"), E3("m","o","v"), E3("a","v","i"), E3("m","k","v"),
      E3("m","4","v"), E3("m","p","g"), E4("m","p","e","g"), E3("w","m","v"),
      E3("f","l","v"), E4("w","e","b","m"), E3("3","g","p"), E3("3","g","2"),
      E3("m","t","s"), E4("m","2","t","s"), E3("v","o","b"), E3("o","g","v") }

\* the index of the last "." of a file name, 0 when it has none
LastDot(name) ==
    IF \E k \in 1..Len(name) : name[k] = "."
    THEN CHOOSE k \in 1..Len(name) :
            name[k] = "." /\ \A m \in (k + 1)..Len(name) : name[m] # "."
    ELSE 0

\* pathlib's PurePath.suffix: from the last dot, unless the dot is first or last
PathSuffix(name) ==
    LET k == LastDot(name)
    IN  IF 1 < k /\ k < Len(name) THEN SubSeq(name, k, Len(name)) ELSE << >>

\* pathlib's PurePath.stem
PathStem(name) ==
    LET k == LastDot(name)
    IN  IF 1 < k /\ k < Len(name) THEN SubSeq(name, 1, k - 1) ELSE name

\* path.suffix.lower()
SuffixLower(f) == StrLower(PathSuffix(f.name))

IsVideo(f) == SuffixLower(f) \in VIDEO_EXTENSIONS

get_file_type_category(f) ==
    IF SuffixLower(f) \in RAW_EXTENSIONS THEN "RAW"
    ELSE IF SuffixLower(f) \in JPG_EXTENSIONS THEN "JPG"
    ELSE IF SuffixLower(f) \in VIDEO_EXTENSIONS THEN "VIDEO"
    ELSE "OTHER"

\* all_file_extensions of organize_photos (415) and the test of line 421
IsRecognized(f) ==
    SuffixLower(f) \in (PHOTO_EXTENSIONS \cup RAW_EXTENSIONS \cup VIDEO_EXTENSIONS)

(***************************************************************************)
(* Numbers and dates: int(), f"{n:0wd}", datetime.strptime, datetime().    *)
(***************************************************************************)
AllDigits(s) == \A k \in 1..Len(s) : IsDigitChar(s[k])

RECURSIVE DigitsValue(_)
DigitsValue(s) ==
    IF s = << >> THEN 0
    ELSE 10 * DigitsValue(SubSeq(s, 1, Len(s) - 1)) + DigitVal(s[Len(s)])

RECURSIVE DigitsOf(_)
DigitsOf(n) ==
    IF n < 10 THEN << DigitChars[n + 1] >>
    ELSE DigitsOf(n \div 10) \o << DigitChars[(n % 10) + 1] >>

RECURSIVE ZeroFill(_, _)
ZeroFill(s, w) == IF Len(s) >= w THEN s ELSE ZeroFill(<< "0" >> \o s, w)

\* f"{n:0wd}" for n >= 0
Pad(n, w) == ZeroFill(DigitsOf(n), w)

\* the result of a conversion that may raise: ok, or the exception
Failed == [ok |-> FALSE, val |-> 0]

Parsed(v) == [ok |-> TRUE, val |-> v]

\* int(s): surrounding whitespace, an optional sign, digits with single
\* underscores between them; anything else raises ValueError
ParseInt(s) ==
    LET t == Strip(s)
        signed == t # << >> /\ t[1] \in {"+", "-"}
        body == IF signed THEN Tail(t) ELSE t
        digits == SelectSeq(body, LAMBDA c : c # "_")
        wellformed ==
            /\ body # << >>
            /\ \A k \in 1..Len(body) : IsDigitChar(body[k]) \/ body[k] = "_"
            /\ IsDigitChar(body[1]) /\ IsDigitChar(body[Len(body)])
            /\ ~Contains(body, << "_", "_" >>)
    IN  IF ~wellformed THEN Failed
        ELSE IF signed /\ t[1] = "-" THEN Parsed(0 - DigitsValue(digits))
        ELSE Parsed(DigitsValue(digits))

\* a datetime; NoDate is Python's None where Optional[datetime] is meant
NoDate == [year |-> 0, month |-> 0, day |-> 0, hour |-> 0, minute |-> 0, second |-> 0]

IsLeap(y) == (y % 4 = 0 /\ y % 100 # 0) \/ y % 400 = 0

DaysInMonth(y, m) ==
    IF m = 2 THEN (IF IsLeap(y) THEN 29 ELSE 28)
    ELSE IF m \in {4, 6, 9, 11} THEN 30 ELSE 31

\* datetime(y, m, d, H, M, S): the value, or NoDate for the ValueError
MakeDate(y, m, d, H, M, S) ==
    IF /\ y \in 1..9999 /\ m \in 1..12 /\ d >= 1 /\ d <= DaysInMonth(y, m)
       /\ H \in 0..23 /\ M \in 0..59 /\ S \in 0..59
    THEN [year |-> y, month |-> m, day |-> d, hour |-> H, minute |-> M, second |-> S]
    ELSE NoDate

\* One numeric directive of strptime's regex at position p: the two-digit
\* alternatives first, then the one-digit one (for %d also " [1-9]").
\* The result is <<value, next position>>, or <<-1, p>> when none matches.
StrpField(s, p, two, one, spaced) ==
    LET has2 == p + 1 <= Len(s) /\ IsDigitChar(s[p]) /\ IsDigitChar(s[p + 1])
        v2 == IF has2 THEN 10 * DigitVal(s[p]) + DigitVal(s[p + 1]) ELSE -1
        has1 == p <= Len(s) /\ IsDigitChar(s[p])
        v1 == IF has1 THEN DigitVal(s[p]) ELSE -1
    IN  IF has2 /\ v2 \in two THEN << v2, p + 2 >>
        ELSE IF has1 /\ v1 \in one THEN << v1, p + 1 >>
        ELSE IF spaced /\ p + 1 <= Len(s) /\ s[p] = " "
                /\ IsDigitChar(s[p + 1]) /\ DigitVal(s[p + 1]) \in 1..9
             THEN << DigitVal(s[p + 1]), p + 2 >>
        ELSE << -1, p >>

\* the end of the run of whitespace that starts at p
RECURSIVE SkipSpaces(_, _)
SkipSpaces(s, p) ==
    IF p <= Len(s) /\ IsSpaceChar(s[p]) THEN SkipSpaces(s, p + 1) ELSE p

\* a literal character of the format at position p
Lit(s, p, c) == p <= Len(s) /\ s[p] = c

\* datetime.strptime(s, "%Y:%m:%d %H:%M:%S"), NoDate for any exception
strptime(s) ==
    LET yOk == Len(s) >= 4 /\ AllDigits(SubSeq(s, 1, 4))
        y   == IF yOk THEN DigitsValue(SubSeq(s, 1, 4)) ELSE -1
        mo  == StrpField(s, 6, 1..12, 1..9, FALSE)
        d   == StrpField(s, mo[2] + 1, 1..31, 1..9, TRUE)
        sp  == SkipSpaces(s, d[2])
        h   == StrpField(s, sp, 0..23, 0..9, FALSE)
        mi  == StrpField(s, h[2] + 1, 0..59, 0..9, FALSE)
        se  == StrpField(s, mi[2] + 1, 0..61, 0..9, FALSE)
    IN  IF /\ yOk /\ Lit(s, 5, ":")
           /\ mo[1] >= 0 /\ Lit(s, mo[2], ":")
           /\ d[1] >= 0 /\ sp > d[2]
           /\ h[1] >= 0 /\ Lit(s, h[2], ":")
           /\ mi[1] >= 0 /\ Lit(s, mi[2], ":")
           /\ se[1] >= 0 /\ se[2] = Len(s) + 1
        THEN MakeDate(y, mo[1], d[1], h[1], mi[1], se[1])
        ELSE NoDate

(***************************************************************************)
(* format_month_name (organize_photos.py 229-241).                         *)
(***************************************************************************)
UnknownYear == << "U", "n", "k", "n", "o", "w", "n", "Y", "e", "a", "r" >>

UnknownMonth == << "U", "n", "k", "n", "o", "w", "n", "M", "o", "n", "t", "h" >>

\* calendar.month_name[1..12]
MonthNames ==
    << << "J", "a", "n", "u", "a", "r", "y" >>,
       << "F", "e", "b", "r", "u", "a", "r", "y" >>,
       << "M", "a", "r", "c", "h" >>,
       << "A", "p", "r", "i", "l" >>,
       << "M", "a", "y" >>,
       << "J", "u", "n", "e" >>,
       << "J", "u", "l", "y" >>,
       << "A", "u", "g", "u", "s", "t" >>,
       << "S", "e", "p", "t", "e", "m", "b", "e", "r" >>,
       << "O", "c", "t", "o", "b", "e", "r" >>,
       << "N", "o", "v", "e", "m", "b", "e", "r" >>,
       << "D", "e", "c", "e", "m", "b", "e", "r" >> >>

format_month_name(month_number, format_type) ==
    IF 1 <= month_number /\ month_number <= 12
    THEN IF format_type = "number"
         THEN Pad(month_number, 2)
         ELSE Pad(month_number, 2) \o << " ", "-", " " >> \o MonthNames[month_number]
    ELSE UnknownMonth

(***************************************************************************)
(* A source file: [dir, name, exif, mtime, content].  exif is what         *)
(* get_exif returns for it, a dict from tag names to strs (the empty dict  *)
(* when the image cannot be opened or holds no EXIF); mtime is the         *)
(* datetime of its modification time, or NoDate when reading it raises.    *)
(***************************************************************************)
NoExif == [t \in {} |-> << >>]

\* get_exif (56-71): the file's tag dict
get_exif(f) == f.exif

\* dict.get(tag): None when the tag is absent
ExifGet(exif, tag) == IF tag \in DOMAIN exif THEN exif[tag] ELSE None

\* a or b on Optional[str]
OrElse(a, b) == IF Truthy(a) THEN a ELSE b

\* os.path.getmtime + datetime.fromtimestamp (91-95): None on any exception
MtimeDate(f) == f.mtime

\* get_date_taken reading the EXIF of every file, and DateTime first
get_date_taken_any_tag(f) ==
    LET exif == get_exif(f)
        date_str == OrElse(ExifGet(exif, "DateTime"),
                           ExifGet(exif, "DateTimeOriginal"))
        parsed == IF Truthy(date_str) THEN strptime(date_str) ELSE NoDate
    IN  [value |-> IF parsed # NoDate THEN parsed ELSE MtimeDate(f),
         exif_read |-> TRUE]

\* get_date_taken with the tags asked for in the other order
get_date_taken_generic_first(f) ==
    IF ~IsVideo(f)
    THEN LET exif == get_exif(f)
             date_str == OrElse(ExifGet(exif, "DateTime"),
                                ExifGet(exif, "DateTimeOriginal"))
             parsed == IF Truthy(date_str) THEN strptime(date_str) ELSE NoDate
         IN  [value |-> IF parsed # NoDate THEN parsed ELSE MtimeDate(f),
              exif_read |-> TRUE]
    ELSE [value |-> MtimeDate(f), exif_read |-> FALSE]

\* get_date_taken (74-95): [value, exif_read]; exif_read tells whether
\* get_exif was called on the file
get_date_taken(f) ==
    IF ~IsVideo(f)
    THEN LET exif == get_exif(f)
             date_str == OrElse(ExifGet(exif, "DateTimeOriginal"),
                                ExifGet(exif, "DateTime"))
             parsed == IF Truthy(date_str) THEN strptime(date_str) ELSE NoDate
         IN  [value |-> IF parsed # NoDate THEN parsed ELSE MtimeDate(f),
              exif_read |-> TRUE]
    ELSE [value |-> MtimeDate(f), exif_read |-> FALSE]

\* get_camera_name (182-201): [value, exif_read]
get_camera_name(f) ==
    IF IsVideo(f)
    THEN [value |-> UnknownCamera, exif_read |-> FALSE]
    ELSE LET exif == get_exif(f)
         IN  [value |-> normalize_camera_name(ExifGet(exif, "Make"),
                                              ExifGet(exif, "Model")),
              exif_read |-> TRUE]

\* the missing-EXIF statistic of organize_photos (428-432):
\* [missing, exif_read]
MissingExifCheck(f) ==
    IF ~IsVideo(f)
    THEN [missing |-> get_exif(f) = NoExif, exif_read |-> TRUE]
    ELSE [missing |-> FALSE, exif_read |-> FALSE]

(***************************************************************************)
(* prompt_for_metadata (244-291).  A response is what the operator types   *)
(* at the three input() calls: [camera, year, month].                      *)
(***************************************************************************)
PromptCamera(typed) ==
    LET camera == Strip(typed)
    IN  IF camera = << >> THEN UnknownCamera
        ELSE normalize_camera_name(camera, None)

PromptYear(typed) ==
    LET year == Strip(typed)
        year_int == ParseInt(year)
    IN  IF year = << >> THEN UnknownYear
        ELSE IF year_int.ok /\ 1900 <= year_int.val /\ year_int.val <= 2100
             THEN Pad(year_int.val, 4)
             ELSE UnknownYear

PromptMonth(typed, month_format) ==
    LET month == Strip(typed)
        month_int == ParseInt(month)
    IN  IF month = << >> THEN UnknownMonth
        ELSE IF month_int.ok /\ 1 <= month_int.val /\ month_int.val <= 12
             THEN format_month_name(month_int.val, month_format)
             ELSE UnknownMonth

prompt_for_metadata(resp, month_format) ==
    [camera |-> PromptCamera(resp.camera),
     year |-> PromptYear(resp.year),
     month |-> PromptMonth(resp.month, month_format)]

\* s.split(" - ")[0]
BeforeDash(s) ==
    IF Contains(s, << " ", "-", " " >>)
    THEN SubSeq(s, 1, (CHOOSE k \in 0..Len(s) :
                          /\ SubSeq(s, k + 1, k + 3) = << " ", "-", " " >>
                          /\ \A m \in 0..(k - 1) :
                                SubSeq(s, m + 1, m + 3) # << " ", "-", " " >>))
    ELSE s

\* lines 449-455: the first-of-month date of the operator's year and month,
\* NoDate when int() or datetime() raises ValueError
PromptedDate(prompt_year, prompt_month) ==
    LET month_num == ParseInt(BeforeDash(prompt_month))
        year_num == ParseInt(prompt_year)
    IN  IF month_num.ok /\ year_num.ok
        THEN MakeDate(year_num.val, month_num.val, 1, 0, 0, 0)
        ELSE NoDate

(***************************************************************************)
(* The body of the first pass for one file (424-484): the record appended  *)
(* to file_info_list and what the statistics gain.  The record holds its   *)
(* path, camera, year and month as TLA+ strings, its stem as characters.   *)
(***************************************************************************)
\* if (needs_camera_prompt or needs_date_prompt) and interactive  (439)
UsePrompt(camera_name, date_taken, interactive) ==
    (camera_name = UnknownCamera \/ date_taken = NoDate) /\ interactive

\* camera_name after lines 444-445
CameraAfterPrompt(camera_name, prompted, answer) ==
    IF prompted /\ camera_name = UnknownCamera THEN answer.camera ELSE camera_name

\* DateAfterPrompt taking a valid answer whether or not a date was found
DateAfterPrompt_always(date_taken, prompted, answer) ==
    IF prompted /\ answer.year # UnknownYear /\ answer.month # UnknownMonth
    THEN answer.date
    ELSE date_taken

\* date_taken after lines 448-458; answer.date is the datetime lines 452-453
\* build from the answer
DateAfterPrompt(date_taken, prompted, answer) ==
    IF prompted /\ date_taken = NoDate
       /\ answer.year # UnknownYear /\ answer.month # UnknownMonth
    THEN answer.date
    ELSE date_taken

\* what of a path the record needs: the path itself, path.stem and
\* get_file_type_category(path)
PathFacts(f) ==
    [path |-> << f.dir, Str(f.name) >>, type |-> get_file_type_category(f),
     stem |-> PathStem(f.name)]

\* the dict appended to file_info_list (466-480)
FileInfo(facts, camera_name, date_taken, month_format) ==
    [path |-> facts.path,
     camera |-> Str(camera_name),
     year |-> IF date_taken # NoDate THEN Str(Pad(date_taken.year, 4))
              ELSE Str(UnknownYear),
     month |-> IF date_taken # NoDate
               THEN Str(format_month_name(date_taken.month, month_format))
               ELSE Str(UnknownMonth),
     type |-> facts.type,
     stem |-> facts.stem]

\* what the iteration leaves: the record, whether the operator was asked,
\* which counters gain one (432-464), and which callers read the EXIF
Outcome(facts, cam, dat, exf, prompted, camera_name, date_taken, month_format) ==
    [info |-> FileInfo(facts, camera_name, date_taken, month_format),
     prompted |-> prompted,
     no_date |-> dat.value = NoDate /\ (prompted => date_taken = NoDate),
     no_camera |-> ~prompted /\ cam.value = UnknownCamera,
     no_exif |-> exf.missing,
     exif_reads |-> {c \in {"get_camera_name", "get_date_taken", "organize_photos"} :
                        \/ c = "get_camera_name" /\ cam.exif_read
                        \/ c = "get_date_taken" /\ dat.exif_read
                        \/ c = "organize_photos" /\ exf.exif_read}]

ResolveWith(facts, cam, dat, exf, prompted, answer, month_format) ==
    Outcome(facts, cam, dat, exf, prompted,
            CameraAfterPrompt(cam.value, prompted, answer),
            DateAfterPrompt(dat.value, prompted, answer), month_format)

\* answer is what prompt_for_metadata would return, were it called
ResolveFrom(facts, cam, dat, exf, interactive, answer, month_format) ==
    ResolveWith(facts, cam, dat, exf, UsePrompt(cam.value, dat.value, interactive),
                answer, month_format)

\* prompt_for_metadata's triple together with the datetime of lines 452-453
Answer(resp, month_format) ==
    LET t == prompt_for_metadata(resp, month_format)
    IN  [camera |-> t.camera, year |-> t.year, month |-> t.month,
         date |-> PromptedDate(t.year, t.month)]

ResolveOne(f, interactive, month_format, resp) ==
    ResolveFrom(PathFacts(f), get_camera_name(f), get_date_taken(f),
                MissingExifCheck(f), interactive, Answer(resp, month_format),
                month_format)

(***************************************************************************)
(* Pairing and grouping (486-504).  file_info_list is a sequence of the    *)
(* records built by the first pass.                                        *)
(***************************************************************************)
KeyOf(info) == << info.camera, info.year, info.month >>

\* the stems (lower-cased) that key the dict built from the records of a type
StemsOf(list, type) ==
    { StrLower(list[k].stem) : k \in { m \in 1..Len(list) : list[m].type = type } }

\* the dict comprehension {info["stem"].lower(): info ...}: a later record
\* with the same key replaces an earlier one
DictEntry(list, type, stem) ==
    list[CHOOSE k \in 1..Len(list) :
            /\ list[k].type = type /\ StrLower(list[k].stem) = stem
            /\ \A m \in (k + 1)..Len(list) :
                  ~(list[m].type = type /\ StrLower(list[m].stem) = stem)]

\* stats["raw_jpg_pairs"] after the loop of lines 490-498
CountPairs(list) ==
    Cardinality({ stem \in StemsOf(list, "RAW") :
                    /\ stem \in StemsOf(list, "JPG")
                    /\ KeyOf(DictEntry(list, "RAW", stem))
                         = KeyOf(DictEntry(list, "JPG", stem)) })

\* the indices of the records of one group, in list order
GroupMembers(list, key) ==
    SelectSeq([k \in 1..Len(list) |-> k], LAMBDA k : KeyOf(list[k]) = key)

\* groups.items() flattened: the groups in the order their keys were first
\* inserted, each group's records in list order (indices into list)
RECURSIVE GroupOrderFrom(_, _)
GroupOrderFrom(list, k) ==
    IF k > Len(list) THEN << >>
    ELSE (IF \A m \in 1..(k - 1) : KeyOf(list[m]) # KeyOf(list[k])
          THEN GroupMembers(list, KeyOf(list[k]))
          ELSE << >>) \o GroupOrderFrom(list, k + 1)

\* the records in list order, whatever their groups
GroupOrder_ungrouped(list) == [k \in 1..Len(list) |-> k]

GroupOrder(list) == GroupOrderFrom(list, 1)

\* has_jpg, has_raw, has_video and needs_separation of a group (509-512)
HasType(list, key, type) ==
    \E k \in 1..Len(list) : KeyOf(list[k]) = key /\ list[k].type = type

NeedsSeparation(list, key, separate_file_types) ==
    separate_file_types
    /\ ((HasType(list, key, "JPG") /\ HasType(list, key, "RAW"))
        \/ HasType(list, key, "VIDEO"))

(***************************************************************************)
(* Placement (518-541) and get_unique_target (294-307).  A destination     *)
(* path is the sequence of its components below dest_dir; the destination  *)
(* tree is a function from the paths of its files to their contents.       *)
(***************************************************************************)
BasePath(scheme, camera, year, month) ==
    IF scheme = "camera_year_month" THEN << camera, year, month >>
    ELSE IF scheme = "year_month" THEN << year, month >>
    ELSE IF scheme = "year_month_camera" THEN << year, month, camera >>
    ELSE << camera, year, month >>

\* FolderPath with the subfolder for every category
FolderPath_any_type(scheme, info, needs_separation) ==
    LET base_path == BasePath(scheme, info.camera, info.year, info.month)
    IN  IF needs_separation THEN Append(base_path, info.type) ELSE base_path

\* base_path / file_type when the group is separated (533-536)
FolderPath(scheme, info, needs_separation) ==
    LET base_path == BasePath(scheme, info.camera, info.year, info.month)
    IN  IF needs_separation /\ info.type \in {"JPG", "RAW", "VIDEO"}
        THEN Append(base_path, info.type)
        ELSE base_path

\* Path.exists() in the destination tree
Exists(tree, path) == path \in DOMAIN tree

\* target.with_name(f"{stem}_{i}{suffix}"), name being the characters of
\* target.name
Candidate(folder, name, i) ==
    Append(folder, Str(PathStem(name) \o << "_" >> \o DigitsOf(i) \o PathSuffix(name)))

\* ProbeFrom without the existence test: the first candidate is taken
ProbeFrom_unchecked(tree, folder, name, i) == Candidate(folder, name, i)

RECURSIVE ProbeFrom(_, _, _, _)
ProbeFrom(tree, folder, name, i) ==
    IF ~Exists(tree, Candidate(folder, name, i))
    THEN Candidate(folder, name, i)
    ELSE ProbeFrom(tree, folder, name, i + 1)

\* get_unique_target probing from _2 on
get_unique_target_from_two(tree, folder, name) ==
    IF ~Exists(tree, Append(folder, Str(name))) THEN Append(folder, Str(name))
    ELSE ProbeFrom(tree, folder, name, 2)

\* get_unique_target without the probe: the target is returned as it came
get_unique_target_as_given(tree, folder, name) == Append(folder, Str(name))

get_unique_target(tree, folder, name) ==
    IF ~Exists(tree, Append(folder, Str(name))) THEN Append(folder, Str(name))
    ELSE ProbeFrom(tree, folder, name, 1)

(***************************************************************************)
(* Checksums and the ledger file (310-347).                                *)
(***************************************************************************)
\* hashlib.sha256 of a file's bytes, hex: a value determined by the content
Sha256(content) == "sha256:" \o content

\* calculate_checksum giving a digest whether or not the read raises
calculate_checksum_unguarded(f) == Sha256(f.content)

\* calculate_checksum: the digest, or "" when reading the file raises
calculate_checksum(f) == IF f.readable THEN Sha256(f.content) ELSE ""

\* str(target.relative_to(dest_dir))
RECURSIVE RelPath(_)
RelPath(path) ==
    IF Len(path) = 1 THEN path[1]
    ELSE path[1] \o "/" \o RelPath(Tail(path))

\* the empty dict
NoEntries == << >>

\* dict.update
DictUpdate(d, e) ==
    [k \in DOMAIN d \cup DOMAIN e |-> IF k \in DOMAIN e THEN e[k] ELSE d[k]]

\* The ledger file .checksums.json is absent, holds text json.load rejects
\* ("garbage"), holds a JSON value that is no object ("other"), or holds an
\* object ("object", with its entries).
AbsentFile == [kind |-> "absent", entries |-> NoEntries]

GarbageFile == [kind |-> "garbage", entries |-> NoEntries]

OtherJsonFile == [kind |-> "other", entries |-> NoEntries]

ObjectFile(entries) == [kind |-> "object", entries |-> entries]

\* save_checksum_log writing the run's entries over the file
save_checksum_log_overwriting(file, checksum_log) == ObjectFile(checksum_log)

\* save_checksum_log: the ledger file afterwards.  A value that is no dict
\* has no update(): the AttributeError is swallowed and nothing is written.
save_checksum_log(file, checksum_log) ==
    IF file.kind = "other" THEN file
    ELSE LET existing_log == IF file.kind = "object" THEN file.entries
                             ELSE NoEntries
         IN  ObjectFile(DictUpdate(existing_log, checksum_log))

(***************************************************************************)
(* The settings store (settings.py 15-51, 54-88, 123-125).                 *)
(* A dict is a function from its keys to its values; a value is written   *)
(* as the text of the Python value.                                        *)
(***************************************************************************)
DEFAULT_SETTINGS ==
    [k \in {"default_source", "default_destination", "default_move_files",
            "organization_scheme", "month_format", "separate_file_types"} |->
        CASE k = "default_source" -> ""
          [] k = "default_destination" -> ""
          [] k = "default_move_files" -> "False"
          [] k = "organization_scheme" -> "camera_year_month"
          [] k = "month_format" -> "full"
          [] k = "separate_file_types" -> "True"]

\* What json.load yields: a JSON value.  py is the Python value as it is
\* used as a dict key or value (a str's content, True, False, None, a
\* number's digits); chars are a str's characters; obj is a dict whose
\* values are such py texts; arr holds a list's elements.
JsonObject(d) == [t |-> "object", py |-> "", obj |-> d, arr |-> << >>, chars |-> << >>]

JsonArray(a) == [t |-> "array", py |-> "", obj |-> << >>, arr |-> a, chars |-> << >>]

JsonString(py, chars) ==
    [t |-> "string", py |-> py, obj |-> << >>, arr |-> << >>, chars |-> chars]

JsonNull == [t |-> "null", py |-> "None", obj |-> << >>, arr |-> << >>, chars |-> << >>]

JsonNumber(py) == [t |-> "number", py |-> py, obj |-> << >>, arr |-> << >>, chars |-> << >>]

\* The settings file: absent; unreadable (open raises OSError); garbage
\* (json.load raises JSONDecodeError); undecodable (reading the text raises
\* UnicodeDecodeError); or JSON text holding a value.
StoreFile(kind, value) == [kind |-> kind, value |-> value]

Returned(d) == [outcome |-> "returned", value |-> d, exc |-> ""]

Raised(e) == [outcome |-> "raised", value |-> << >>, exc |-> e]

\* One element of the iterable handed to dict.update: the key/value pair it
\* contributes, or the exception (an element must be an iterable of exactly
\* two items, the first of them hashable).  The elements modelled are strs,
\* lists and scalars.
UpdatePair(e) ==
    CASE e.t = "string" ->
           IF Len(e.chars) = 2
           THEN [exc |-> "", key |-> e.chars[1], val |-> e.chars[2]]
           ELSE [exc |-> "ValueError", key |-> "", val |-> ""]
      [] e.t = "array" ->
           IF Len(e.arr) # 2 THEN [exc |-> "ValueError", key |-> "", val |-> ""]
           ELSE IF e.arr[1].t \in {"array", "object"}
                THEN [exc |-> "TypeError", key |-> "", val |-> ""]
                ELSE [exc |-> "", key |-> e.arr[1].py, val |-> e.arr[2].py]
      [] e.t \in {"null", "number"} ->
           [exc |-> "TypeError", key |-> "", val |-> ""]

RECURSIVE UpdateFromPairs(_, _)
UpdateFromPairs(d, elems) ==
    IF elems = << >> THEN Returned(d)
    ELSE LET pr == UpdatePair(elems[1])
         IN  IF pr.exc # "" THEN Raised(pr.exc)
             ELSE UpdateFromPairs(DictUpdate(d, (pr.key :> pr.val)), Tail(elems))

\* merged = DEFAULT_SETTINGS.copy(); merged.update(settings)
MergeOntoDefaults(value) ==
    IF value.t = "object" THEN Returned(DictUpdate(DEFAULT_SETTINGS, value.obj))
    ELSE IF value.t = "array" THEN UpdateFromPairs(DEFAULT_SETTINGS, value.arr)
    ELSE IF value.t = "string"
    THEN IF value.chars = << >> THEN Returned(DEFAULT_SETTINGS)
         ELSE Raised("ValueError")
    ELSE Raised("TypeError")

\* load_settings (30-51): only json.JSONDecodeError and IOError are caught
load_settings(file) ==
    IF file.kind = "absent" THEN Returned(DEFAULT_SETTINGS)
    ELSE IF file.kind \in {"unreadable", "garbage"} THEN Returned(DEFAULT_SETTINGS)
    ELSE IF file.kind = "undecodable" THEN Raised("UnicodeDecodeError")
    ELSE MergeOntoDefaults(file.value)

\* save_settings (54-71): the file afterwards and the bool returned; the
\* write fails with OSError on the file that cannot be opened
save_settings(file, d) ==
    IF file.kind = "unreadable" THEN [file |-> file, saved |-> "False"]
    ELSE [file |-> StoreFile("json", JsonObject(d)), saved |-> "True"]

\* settings[key] = value
DictSet(d, key, value) == DictUpdate(d, (key :> value))

(***************************************************************************)
(* State.                                                                  *)
(*   src             the source tree: its files (by file id) in the order  *)
(*                   rglob lists them                                      *)
(*   dest            the destination tree: path -> content                 *)
(*   ledger          the file .checksums.json of the destination root      *)
(*   cfg             the arguments of organize_photos                      *)
(*   operator        who sits at the prompts: names the set of responses   *)
(*                   that may be typed                                     *)
(*   faults          the environment: the source files whose read fails in *)
(*                   calculate_checksum, those whose copy or move raises,  *)
(*                   and whether a copy that raises leaves a truncated     *)
(*                   target behind                                         *)
(*   run, pc, idx    the run number, the phase of organize_photos and the  *)
(*                   loop index of the phase                               *)
(*   files           the files the first pass walks                        *)
(*   file_info_list  the records of the first pass                         *)
(*   stats           the statistics of the run                             *)
(*   plan            the order of the second pass (indices of records)     *)
(*   trace           history: one entry per file resolved                  *)
(*   log             history: one entry per file transferred               *)
(*   ledger0         history: the ledger file when the run started         *)
(*   norm            one evaluation of normalize_camera_name               *)
(*   settings        the settings file and the result of the last call     *)
(***************************************************************************)
VARIABLES src, dest, ledger, cfg, operator, faults, run, pc, idx, files,
          file_info_list, stats, plan, trace, log, ledger0, norm, settings

vars == << src, dest, ledger, cfg, operator, faults, run, pc, idx, files,
           file_info_list, stats, plan, trace, log, ledger0, norm, settings >>

\* Bounds of the model
MaxFiles == 3

MaxRuns == 2

MaxChunks == 2

MaxSettingsOps == 2

(***************************************************************************)
(* Named strs of the inputs.                                               *)
(***************************************************************************)
S_NIKON == << "N", "I", "K", "O", "N" >>

S_D90 == << "D", "9", "0" >>

S_a_jpg == << "a", ".", "j", "p", "g" >>

S_a_cr2 == << "a", ".", "c", "r", "2" >>

S_A_CR2 == << "A", ".", "C", "R", "2" >>

S_v_mp4 == << "v", ".", "m", "p", "4" >>

S_p_png == << "p", ".", "p", "n", "g" >>

S_n_txt == << "n", ".", "t", "x", "t" >>

\* "YYYY:MM:DD HH:MM:SS" for a date, the way a camera writes the tag
ExifStamp(y, m, d, H, M, S) ==
    Pad(y, 4) \o << ":" >> \o Pad(m, 2) \o << ":" >> \o Pad(d, 2) \o << " " >>
    \o Pad(H, 2) \o << ":" >> \o Pad(M, 2) \o << ":" >> \o Pad(S, 2)

NikonExif ==
    ("Make" :> S_NIKON) @@ ("Model" :> S_D90)
    @@ ("DateTimeOriginal" :> ExifStamp(2024, 3, 15, 10, 30, 0))

March2024 == MakeDate(2024, 3, 9, 12, 0, 0)

May2025 == MakeDate(2025, 5, 1, 8, 0, 0)

File(dir, name, exif, mtime, content) ==
    [dir |-> dir, name |-> name, exif |-> exif, mtime |-> mtime,
     content |-> content, readable |-> TRUE]

\* The files a source tree of the organizer's specification is made of,
\* numbered: a RAW/JPG pair of one camera, a second a.jpg of the same camera
\* in another directory, a RAW without EXIF whose stem differs from a.cr2
\* only in case, a video, a text file, which the organizer does not
\* recognize, and a PNG of the Nikon, whose category is OTHER.
Catalog ==
    << File("d1", S_a_cr2, NikonExif, May2025, "c1"),
       File("d1", S_a_jpg, NikonExif, May2025, "c2"),
       File("d2", S_a_jpg, NikonExif, May2025, "c3"),
       File("d2", S_A_CR2, NoExif, March2024, "c4"),
       File("d1", S_v_mp4, NikonExif, March2024, "c5"),
       File("d1", S_n_txt, NoExif, March2024, "c6"),
       File("d1", S_p_png, NikonExif, May2025, "c7") >>

S_b_CR2 == << "b", ".", "C", "R", "2" >>

S_Inc == << "I", "n", "c" >>

S_ILCE_7M3 == << "I", "L", "C", "E", "-", "7", "M", "3" >>

S_garbage == << "g", "a", "r", "b", "a", "g", "e" >>

\* a stamp strptime accepts although no field is padded: 2024:3:5 1:2:3
S_unpadded ==
    << "2", "0", "2", "4", ":", "3", ":", "5", " ", "1", ":", "2", ":", "3" >>

(***************************************************************************)
(* The files of the metadata specification: every combination of a name,  *)
(* a DateTimeOriginal, a DateTime, a Make/Model and a modification time.   *)
(* None stands for an absent tag, NoDate for a modification time that      *)
(* cannot be read.                                                         *)
(***************************************************************************)
MetaNames == << S_a_jpg, S_b_CR2, S_v_mp4, S_p_png >>

\* the dates the DateTimeOriginal stamps are written from
StampDates ==
    << MakeDate(2024, 3, 15, 10, 30, 0), MakeDate(1999, 12, 31, 23, 59, 59) >>

StampOf(d) == ExifStamp(d.year, d.month, d.day, d.hour, d.minute, d.second)

MetaOriginals ==
    << None, StampOf(StampDates[1]), StampOf(StampDates[2]), S_unpadded,
       ExifStamp(0, 0, 0, 0, 0, 0), << >> >>

DigitizedDate == MakeDate(2021, 7, 4, 9, 0, 0)

MetaDateTimes == << None, StampOf(DigitizedDate), S_garbage >>

MetaCameras ==
    << [make |-> None, model |-> None], [make |-> S_NIKON, model |-> S_D90],
       [make |-> << " " >>, model |-> S_Inc], [make |-> None, model |-> S_ILCE_7M3] >>

January2020 == MakeDate(2020, 1, 2, 3, 4, 5)

MetaMtimes == << NoDate, January2020 >>

\* the dict get_exif returns for an image with these tags
ExifOf(original, datetime, make, model) ==
    LET tags == ("DateTimeOriginal" :> original) @@ ("DateTime" :> datetime)
                @@ ("Make" :> make) @@ ("Model" :> model)
    IN  [t \in { u \in DOMAIN tags : tags[u] # None } |-> tags[t]]

\* the ids of the files of the metadata specification follow the catalog's
MetaCount ==
    Len(MetaNames) * Len(MetaOriginals) * Len(MetaDateTimes) * Len(MetaCameras)
    * Len(MetaMtimes)

MetaIds == (Len(Catalog) + 1)..(Len(Catalog) + MetaCount)

\* the k-th combination, k counted from 0
MetaFile(k) ==
    LET name == MetaNames[(k % 4) + 1]
        original == MetaOriginals[((k \div 4) % 6) + 1]
        datetime == MetaDateTimes[((k \div 24) % 3) + 1]
        camera == MetaCameras[((k \div 72) % 4) + 1]
        mtime == MetaMtimes[((k \div 288) % 2) + 1]
    IN  File("m", name, ExifOf(original, datetime, camera.make, camera.model),
             mtime, "c")

\* the file a file id stands for
FileOf(id) ==
    IF id <= Len(Catalog) THEN Catalog[id] ELSE MetaFile(id - Len(Catalog) - 1)

FileIds == 1..(Len(Catalog) + MetaCount)

\* Every listing rglob can give of at most n files out of ids: no file
\* twice, the entries of one directory next to each other.
Listings(ids, n) ==
    UNION { { t \in [1..k -> ids] :
                /\ \A a, b \in 1..k : a # b => t[a] # t[b]
                /\ \A a, b, c \in 1..k :
                      (a < b /\ b < c /\ FileOf(t[a]).dir = FileOf(t[c]).dir)
                          => FileOf(t[b]).dir = FileOf(t[a]).dir } :
            k \in 0..n }

Response(camera, year, month) == [camera |-> camera, year |-> year, month |-> month]

\* three times Enter
NoResponse == Response(<< >>, << >>, << >>)

\* the Nikon and March 2024
NikonResponse ==
    Response(<< "n", "i", "k", "o", "n", " ", "d", "9", "0" >>,
             << "2", "0", "2", "4" >>, << "3" >>)

\* The operator of the metadata specification types any combination of
\* these lines.
MetaResponses ==
    { Response(c, y, m) :
        c \in { << >>, << " ", "n", "i", "k", "o", "n", " ", "d", "9", "0", " " >>,
                << "_" >> },
        y \in { << >>, << "2", "0", "2", "4" >>, << "1", "8", "9", "9" >>, << "x" >> },
        m \in { << >>, << "5" >>, << "1", "3" >> } }

\* What the operator may type at a prompt: the operator "enter" skips every
\* prompt, "nikon" names the Nikon and March 2024 at every prompt, "any"
\* types any of MetaResponses.
Responses(who) ==
    IF who = "any" THEN MetaResponses
    ELSE IF who = "nikon" THEN {NikonResponse}
    ELSE {NoResponse}

MonthFormats == {"full", "number"}

(***************************************************************************)
(* The metadata functions tabulated over the files and responses of the    *)
(* model: what each call returns for each input.  (f @@ << >> is f, held   *)
(* as an enumerated table.)                                                *)
(***************************************************************************)
camera_names == [id \in FileIds |-> get_camera_name(FileOf(id))] @@ << >>

dates_taken == [id \in FileIds |-> get_date_taken(FileOf(id))] @@ << >>

exif_checks == [id \in FileIds |-> MissingExifCheck(FileOf(id))] @@ << >>

answers ==
    [resp \in {NoResponse, NikonResponse} \cup MetaResponses, month_format \in MonthFormats |->
        Answer(resp, month_format)] @@ << >>

path_facts == [id \in FileIds |-> PathFacts(FileOf(id))] @@ << >>

recognized == [id \in FileIds |-> IsRecognized(FileOf(id))] @@ << >>

Config(move, interactive, scheme, month_format, separate) ==
    [move |-> move, interactive |-> interactive, organization_scheme |-> scheme,
     month_format |-> month_format, separate_file_types |-> separate]

Schemes == {"camera_year_month", "year_month", "year_month_camera", "by_camera"}

\* where the Nikon's a.jpg lands under the default scheme
NikonTarget == << "Nikon_D90", "2024", "03 - March", "a.jpg" >>

\* the second suffixed name beside it
NikonSecond == << "Nikon_D90", "2024", "03 - March", "a_2.jpg" >>

\* where the video lands under the default scheme with type separation
StaleKey == "UnknownCamera/2024/03 - March/VIDEO/v.mp4"

\* The destination a run starts from: [dest, ledger].  Empty; or holding
\* a.jpg of an earlier run with a ledger that records it and a video since
\* deleted; or empty with a ledger file that is not a JSON object; or
\* holding a.jpg and a_2.jpg, a_1.jpg having been deleted.
Setups ==
    { [dest |-> NoEntries, ledger |-> AbsentFile],
      [dest |-> (NikonTarget :> "c0") @@ (NikonSecond :> "c8"),
       ledger |-> AbsentFile],
      [dest |-> (NikonTarget :> "c0"),
       ledger |-> ObjectFile((RelPath(NikonTarget) :> Sha256("c0"))
                             @@ (StaleKey :> Sha256("c9")))],
      [dest |-> NoEntries, ledger |-> GarbageFile],
      [dest |-> NoEntries, ledger |-> OtherJsonFile] }

NoStats ==
    [files_processed |-> 0, files_no_date |-> 0, files_no_camera |-> 0,
     files_no_exif |-> 0, raw_jpg_pairs |-> 0,
     cameras |-> NoEntries, checksum_log |-> NoEntries]

IdleNorm ==
    [pc |-> "idle", make |-> None, model |-> None, out |-> None,
     as_make |-> None, as_model |-> None]

IdleSettings ==
    [pc |-> "idle", ops |-> 0, file |-> StoreFile("absent", JsonNull),
     last |-> "none", result |-> Returned(NoEntries), saved |-> ""]

\* The faults of the environment: sum, the source files whose read in
\* calculate_checksum raises; copy, those whose shutil.copy2 or shutil.move
\* raises; partial, whether the copy that raises has created its target.
Faults(sum, copy, partial) == [sum |-> sum, copy |-> copy, partial |-> partial]

NoFaults == Faults({}, {}, FALSE)

\* The faults of the runs with faults: the checksum read of d1/a.jpg fails
\* and its transfer succeeds; d1/a.jpg cannot be read at all; the transfer
\* of d2/a.jpg raises before or after its target was created.
FaultPlans ==
    { Faults({2}, {}, FALSE), Faults({2}, {2}, FALSE),
      Faults({}, {3}, FALSE), Faults({}, {3}, TRUE) }

World(config, who, setup) == [cfg |-> config, operator |-> who, setup |-> setup]

\* The runs of the organizer's specification: a copying run without
\* prompts into the empty destination under every scheme, with and without
\* type separation; and, under the default scheme with type separation,
\* copying and moving runs without prompts and with either operator, into
\* every destination of Setups.  The runs with faults are the copying and
\* moving runs without prompts into the empty destination.
FaultsOf(w) ==
    IF /\ ~w.cfg.interactive /\ w.cfg.separate_file_types
       /\ w.cfg.organization_scheme = "camera_year_month"
       /\ w.setup = [dest |-> NoEntries, ledger |-> AbsentFile]
    THEN {NoFaults} \cup FaultPlans
    ELSE {NoFaults}

SpecWorlds ==
    { World(Config(FALSE, FALSE, sc, "full", sep), "enter",
            [dest |-> NoEntries, ledger |-> AbsentFile]) :
        sc \in Schemes, sep \in BOOLEAN }
    \cup
    { World(Config(mv, who # "nobody", "camera_year_month", "full", TRUE),
            IF who = "nobody" THEN "enter" ELSE who, su) :
        mv \in BOOLEAN, who \in {"nobody", "enter", "nikon"}, su \in Setups }

\* The source trees of the organizer's specification hold files out of the
\* first six of the catalog, or the PNG and files of d1 beside it.
CoreIds == 1..(Len(Catalog) - 1)

PngIds == {1, 2, 5, Len(Catalog)}

\* the organizer before its first run
Init ==
    /\ src \in Listings(CoreIds, MaxFiles) \cup Listings(PngIds, MaxFiles)
    /\ \E w \in SpecWorlds :
          /\ cfg = w.cfg /\ operator = w.operator
          /\ dest = w.setup.dest /\ ledger = w.setup.ledger
          /\ ledger0 = w.setup.ledger
          /\ faults \in FaultsOf(w)
    /\ run = 0 /\ pc = "idle" /\ idx = 0 /\ files = << >>
    /\ file_info_list = << >> /\ stats = NoStats /\ plan = << >>
    /\ trace = << >> /\ log = << >>
    /\ norm = IdleNorm /\ settings = IdleSettings

(***************************************************************************)
(* organize_photos (350-571), one action per phase and loop iteration.     *)
(***************************************************************************)
\* lines 391-415: a run starts; rglob lists the source tree
StartRun ==
    /\ pc \in {"idle", "done", "failed"}
    /\ run < MaxRuns
    /\ run' = run + 1
    /\ pc' = "pass1"
    /\ idx' = 1
    /\ files' = src
    /\ file_info_list' = << >>
    /\ stats' = NoStats
    /\ plan' = << >>
    /\ ledger0' = ledger
    /\ UNCHANGED << src, dest, ledger, cfg, operator, faults, trace, log, norm, settings >>

\* Counted setting the count to one
Counted_once(cameras, name) == DictUpdate(cameras, (name :> 1))

\* dict[key] += 1 on a defaultdict(int)
Counted(cameras, name) ==
    DictUpdate(cameras,
               (name :> (IF name \in DOMAIN cameras THEN cameras[name] + 1 ELSE 1)))

\* StatsAfterResolve leaving the missing-date counter as it is
StatsAfterResolve_date_uncounted(st, r) ==
    [st EXCEPT
       !.files_no_camera = @ + (IF r.no_camera THEN 1 ELSE 0),
       !.files_no_exif = @ + (IF r.no_exif THEN 1 ELSE 0),
       !.cameras = Counted(@, r.info.camera)]

\* the statistics after the first pass handled a file with outcome r
StatsAfterResolve(st, r) ==
    [st EXCEPT
       !.files_no_date = @ + (IF r.no_date THEN 1 ELSE 0),
       !.files_no_camera = @ + (IF r.no_camera THEN 1 ELSE 0),
       !.files_no_exif = @ + (IF r.no_exif THEN 1 ELSE 0),
       !.cameras = Counted(@, r.info.camera)]

\* lines 417-484: one iteration of the first pass.  (\E x \in {e} names the
\* value of e, computed once.)
ResolveFile ==
    /\ pc = "pass1"
    /\ idx <= Len(files)
    /\ \E id \in {files[idx]} :
          IF ~recognized[id]
          THEN UNCHANGED << file_info_list, stats, trace >>
          ELSE \E cam \in {camera_names[id]}, dat \in {dates_taken[id]} :
               \E resp \in (IF UsePrompt(cam.value, dat.value, cfg.interactive)
                            THEN Responses(operator) ELSE {NoResponse}) :
               \E r \in {ResolveFrom(path_facts[id], cam, dat, exif_checks[id],
                                     cfg.interactive,
                                     answers[resp, cfg.month_format],
                                     cfg.month_format)} :
                  /\ file_info_list' = Append(file_info_list, r.info)
                  /\ stats' = StatsAfterResolve(stats, r)
                  /\ trace' = Append(trace,
                         [run |-> run, file |-> id, resp |-> resp,
                          info |-> r.info, prompted |-> r.prompted,
                          exif_reads |-> r.exif_reads])
    /\ idx' = idx + 1
    /\ UNCHANGED << src, dest, ledger, cfg, operator, faults, run, pc, files, plan, log,
                    ledger0, norm, settings >>

\* PairAndGroup taken while files of the walk are still unresolved
PairAndGroup_early ==
    /\ pc = "pass1"
    /\ stats' = [stats EXCEPT !.raw_jpg_pairs = CountPairs(file_info_list)]
    /\ plan' = GroupOrder(file_info_list)
    /\ pc' = "pass2"
    /\ idx' = 1
    /\ UNCHANGED << src, dest, ledger, cfg, operator, faults, run, files,
                    file_info_list, trace, log, ledger0, norm, settings >>

\* lines 486-504: the pair statistic and the groups
PairAndGroup ==
    /\ pc = "pass1"
    /\ idx > Len(files)
    /\ stats' = [stats EXCEPT !.raw_jpg_pairs = CountPairs(file_info_list)]
    /\ plan' = GroupOrder(file_info_list)
    /\ pc' = "pass2"
    /\ idx' = 1
    /\ UNCHANGED << src, dest, ledger, cfg, operator, faults, run, files, file_info_list,
                    trace, log, ledger0, norm, settings >>

\* the path of a source file, as the records hold it
PathOf(id) == path_facts[id].path

\* the source file at a path
FileAt(tree, path) ==
    CHOOSE id \in { tree[k] : k \in 1..Len(tree) } : PathOf(id) = path

\* Without leaving the file in the source tree
Without_kept(tree, path) == tree

\* shutil.move takes the file out of the source tree
Without(tree, path) == SelectSeq(tree, LAMBDA id : PathOf(id) # path)

\* a source file as the second pass finds it
SourceFile(id) == [FileOf(id) EXCEPT !.readable = id \notin faults.sum]

\* what a copy that raised after creating its target leaves there
Truncated == ""

\* lines 514-552: an iteration of the second pass whose shutil.copy2 or
\* shutil.move raises; the exception leaves organize_photos
TransferRaises ==
    /\ pc = "pass2"
    /\ idx <= Len(plan)
    /\ \E info \in {file_info_list[plan[idx]]} :
       \E id \in {FileAt(src, info.path)}, needs_separation \in
               {NeedsSeparation(file_info_list, KeyOf(info), cfg.separate_file_types)} :
       \E f \in {SourceFile(id)}, folder_path \in
               {FolderPath(cfg.organization_scheme, info, needs_separation)} :
       \E target \in {get_unique_target(dest, folder_path, f.name)},
          checksum \in {calculate_checksum(f)} :
           /\ id \in faults.copy
           /\ stats' = [stats EXCEPT
                          !.checksum_log =
                              IF checksum # ""
                              THEN DictUpdate(@, (RelPath(target) :> checksum))
                              ELSE @]
           /\ dest' = IF faults.partial
                      THEN DictUpdate(dest, (target :> Truncated))
                      ELSE dest
    /\ pc' = "failed"
    /\ UNCHANGED << src, ledger, cfg, operator, faults, run, idx, files,
                    file_info_list, plan, trace, log, ledger0, norm, settings >>

\* lines 514-557: one iteration of the second pass
Transfer ==
    /\ pc = "pass2"
    /\ idx <= Len(plan)
    /\ \E info \in {file_info_list[plan[idx]]} :
       \E id \in {FileAt(src, info.path)}, needs_separation \in
               {NeedsSeparation(file_info_list, KeyOf(info), cfg.separate_file_types)} :
       \E f \in {SourceFile(id)}, folder_path \in
               {FolderPath(cfg.organization_scheme, info, needs_separation)} :
       \E target \in {get_unique_target(dest, folder_path, f.name)},
          checksum \in {calculate_checksum(f)} :
           /\ id \notin faults.copy
           /\ stats' = [stats EXCEPT
                          !.checksum_log =
                              IF checksum # ""
                              THEN DictUpdate(@, (RelPath(target) :> checksum))
                              ELSE @,
                          !.files_processed = @ + 1]
           /\ dest' = DictUpdate(dest, (target :> f.content))
           /\ src' = IF cfg.move THEN Without(src, info.path) ELSE src
           /\ log' = Append(log, [run |-> run, file |-> id,
                                  folder |-> folder_path, target |-> target,
                                  existed |-> Exists(dest, target),
                                  separated |-> needs_separation,
                                  info |-> info])
    /\ idx' = idx + 1
    /\ UNCHANGED << ledger, cfg, operator, faults, run, pc, files, file_info_list, plan,
                    trace, ledger0, norm, settings >>

\* lines 559-571: the ledger is saved when a checksum was recorded
SaveLedger ==
    /\ pc = "pass2"
    /\ idx > Len(plan)
    /\ ledger' = IF stats.checksum_log # NoEntries
                 THEN save_checksum_log(ledger, stats.checksum_log)
                 ELSE ledger
    /\ pc' = "done"
    /\ UNCHANGED << src, dest, cfg, operator, faults, run, idx, files, file_info_list,
                    stats, plan, trace, log, ledger0, norm, settings >>

Next ==
    StartRun \/ ResolveFile \/ PairAndGroup \/ Transfer \/ TransferRaises
    \/ SaveLedger

Spec == Init /\ [][Next]_vars

(***************************************************************************)
(* The metadata specification: the first pass over a source tree of one    *)
(* file, for every file of MetaIds and every response of the operator.     *)
(***************************************************************************)
InitMeta ==
    /\ \E id \in MetaIds : src = << id >>
    /\ \E ia \in BOOLEAN, mf \in MonthFormats :
          cfg = Config(FALSE, ia, "camera_year_month", mf, TRUE)
    /\ operator = "any" /\ faults = NoFaults
    /\ dest = NoEntries /\ ledger = AbsentFile /\ ledger0 = AbsentFile
    /\ run = 0 /\ pc = "idle" /\ idx = 0 /\ files = << >>
    /\ file_info_list = << >> /\ stats = NoStats /\ plan = << >>
    /\ trace = << >> /\ log = << >>
    /\ norm = IdleNorm /\ settings = IdleSettings

NextMeta == StartRun \/ ResolveFile

SpecMeta == InitMeta /\ [][NextMeta]_vars

(***************************************************************************)
(* The normalization specification: normalize_camera_name on a make and a  *)
(* model, then on its own result.                                          *)
(***************************************************************************)
NormChunks == { S_NIKON, S_D90, << " " >>, S_Inc }

\* the strs made of at most n chunks
RECURSIVE ChunkStrings(_)
ChunkStrings(n) ==
    IF n = 0 THEN { << >> }
    ELSE ChunkStrings(n - 1)
         \cup { s \o c : s \in ChunkStrings(n - 1), c \in NormChunks }

NormInputs == { None } \cup ChunkStrings(MaxChunks)

InitNorm ==
    /\ src = << >> /\ dest = NoEntries /\ ledger = AbsentFile
    /\ cfg = Config(FALSE, FALSE, "camera_year_month", "full", TRUE)
    /\ operator = "enter" /\ faults = NoFaults
    /\ run = 0 /\ pc = "off" /\ idx = 0 /\ files = << >>
    /\ file_info_list = << >> /\ stats = NoStats /\ plan = << >>
    /\ trace = << >> /\ log = << >> /\ ledger0 = AbsentFile
    /\ \E mk \in NormInputs, md \in NormInputs :
          norm = [pc |-> "ready", make |-> mk, model |-> md, out |-> None,
                  as_make |-> None, as_model |-> None]
    /\ settings = IdleSettings

organizerVars == << src, dest, ledger, cfg, operator, faults, run, pc, idx, files,
                    file_info_list, stats, plan, trace, log, ledger0 >>

\* n = normalize_camera_name(make, model)
Normalize ==
    /\ norm.pc = "ready"
    /\ norm' = [norm EXCEPT !.pc = "normalized",
                            !.out = normalize_camera_name(norm.make, norm.model)]
    /\ UNCHANGED << organizerVars, settings >>

\* normalize_camera_name(n, None), the way prompt_for_metadata (257)
\* normalizes a typed name, and normalize_camera_name(None, n)
Renormalize ==
    /\ norm.pc = "normalized"
    /\ norm' = [norm EXCEPT !.pc = "again",
                            !.as_make = normalize_camera_name(norm.out, None),
                            !.as_model = normalize_camera_name(None, norm.out)]
    /\ UNCHANGED << organizerVars, settings >>

NextNorm == Normalize \/ Renormalize

SpecNorm == InitNorm /\ [][NextNorm]_vars

(***************************************************************************)
(* The settings specification: load_settings, set_setting and              *)
(* reset_settings on a settings file of any content.                       *)
(***************************************************************************)
J_number == << "n", "u", "m", "b", "e", "r" >>

J_month_format ==
    << "m", "o", "n", "t", "h", "_", "f", "o", "r", "m", "a", "t" >>

\* the JSON values a settings file of the model holds
StoredValues ==
    { JsonNull, JsonNumber("5"), JsonString("", << >>),
      JsonString("ab", << "a", "b" >>),
      JsonArray(<< >>), JsonArray(<< JsonNumber("1") >>),
      JsonArray(<< JsonString("ab", << "a", "b" >>) >>),
      JsonArray(<< JsonArray(<< JsonString("month_format", J_month_format),
                                JsonString("number", J_number) >>) >>),
      JsonObject(NoEntries),
      JsonObject(("month_format" :> "number")),
      JsonObject(("organization_scheme" :> "year_month") @@ ("theme" :> "dark")) }

Stores ==
    { StoreFile(k, JsonNull) : k \in {"absent", "unreadable", "garbage", "undecodable"} }
    \cup { StoreFile("json", v) : v \in StoredValues }

InitSettings ==
    /\ src = << >> /\ dest = NoEntries /\ ledger = AbsentFile
    /\ cfg = Config(FALSE, FALSE, "camera_year_month", "full", TRUE)
    /\ operator = "enter" /\ faults = NoFaults
    /\ run = 0 /\ pc = "off" /\ idx = 0 /\ files = << >>
    /\ file_info_list = << >> /\ stats = NoStats /\ plan = << >>
    /\ trace = << >> /\ log = << >> /\ ledger0 = AbsentFile
    /\ norm = IdleNorm
    /\ \E f \in Stores :
          settings = [pc |-> "ready", ops |-> 0, file |-> f, last |-> "none",
                      result |-> Returned(NoEntries), saved |-> ""]

\* load_settings()
LoadSettings ==
    /\ settings.pc = "ready"
    /\ settings.ops < MaxSettingsOps
    /\ settings' = [settings EXCEPT !.ops = @ + 1, !.last = "load",
                                    !.result = load_settings(settings.file),
                                    !.saved = ""]
    /\ UNCHANGED << organizerVars, norm >>

\* set_setting(key, value) (82-88): an exception of load_settings leaves
\* the file as it is
SetSetting ==
    /\ settings.pc = "ready"
    /\ settings.ops < MaxSettingsOps
    /\ \E key \in {"month_format", "default_move_files"}, value \in {"number", "True"} :
          LET loaded == load_settings(settings.file)
              written == save_settings(settings.file,
                                       DictSet(loaded.value, key, value))
          IN  settings' =
                 IF loaded.outcome = "raised"
                 THEN [settings EXCEPT !.ops = @ + 1, !.last = "set",
                                       !.result = loaded, !.saved = ""]
                 ELSE [settings EXCEPT !.ops = @ + 1, !.last = "set",
                                       !.result = loaded,
                                       !.file = written.file,
                                       !.saved = written.saved]
    /\ UNCHANGED << organizerVars, norm >>

\* reset_settings() (123-125)
ResetSettings ==
    /\ settings.pc = "ready"
    /\ settings.ops < MaxSettingsOps
    /\ LET written == save_settings(settings.file, DEFAULT_SETTINGS)
       IN  settings' = [settings EXCEPT !.ops = @ + 1, !.last = "reset",
                                        !.file = written.file,
                                        !.saved = written.saved]
    /\ UNCHANGED << organizerVars, norm >>

NextSettings == LoadSettings \/ SetSetting \/ ResetSettings

SpecSettings == InitSettings /\ [][NextSettings]_vars

(***************************************************************************)
(* Properties of the organizer's specification.                            *)
(***************************************************************************)
LastOf(path) == path[Len(path)]

\* the entries of the transfer log of run r, as indices
Transfers(r) == { i \in 1..Len(log) : log[i].run = r }

\* the destination held nothing when the first run started
StartedEmpty == Cardinality(DOMAIN dest) = Len(log)

\* C1: no transfer writes onto a path that exists: the target of every
\* transfer was absent when the transfer was made, no two transfers share a
\* target, every file transferred is in the destination with its own
\* content, no step changes or removes a file the destination holds; and two
\* source files named a.jpg that the first run into an empty destination
\* puts into one folder become a.jpg and a_1.jpg.
C1_NoOverwrite ==
    /\ [](/\ \A i \in 1..Len(log) : ~log[i].existed
          /\ \A i, j \in 1..Len(log) : i # j => log[i].target # log[j].target
          /\ \A i \in 1..Len(log) :
                /\ log[i].target \in DOMAIN dest
                /\ dest[log[i].target] = FileOf(log[i].file).content
          /\ \A i, j \in Transfers(1) :
                (/\ StartedEmpty /\ i < j
                 /\ log[i].folder = log[j].folder
                 /\ LastOf(log[i].info.path) = "a.jpg"
                 /\ LastOf(log[j].info.path) = "a.jpg")
                => /\ LastOf(log[i].target) = "a.jpg"
                   /\ LastOf(log[j].target) = "a_1.jpg")
    /\ [][\A p \in DOMAIN dest : p \in DOMAIN dest' /\ dest'[p] = dest[p]]_vars

\* C1 witness: two source files of one name went into one folder of a
\* destination that held a file before the first run
C1_Witness ==
    /\ ~StartedEmpty
    /\ \E i, j \in 1..Len(log) :
          /\ i < j /\ log[i].run = log[j].run
          /\ log[i].folder = log[j].folder
          /\ LastOf(log[i].info.path) = LastOf(log[j].info.path)

\* the files of a tree that the first pass makes a record of
Discovered(tree) == SelectSeq(tree, LAMBDA id : recognized[id])

\* the two copying runs of C2 are over
TwoCopyRunsDone == run = 2 /\ pc = "done" /\ ~cfg.move /\ StartedEmpty

\* the transfer of file id in run r
TransferOf(id, r) == CHOOSE i \in Transfers(r) : log[i].file = id

\* the number of files of the destination with this content
Copies(content) == Cardinality({ p \in DOMAIN dest : dest[p] = content })

TriedBefore(folder, name, k) ==
    { Append(folder, Str(name)) } \cup { Candidate(folder, name, j) : j \in 1..(k - 1) }

C3_LedgerOnlyGrows ==
    \A k \in DOMAIN ledger0.entries :
        /\ k \in DOMAIN ledger.entries
        /\ \/ ledger.entries[k] = ledger0.entries[k]
           \/ /\ k \in DOMAIN stats.checksum_log
              /\ ledger.entries[k] = stats.checksum_log[k]

\* C3 witness: a run into a destination whose ledger held entries has saved
\* the ledger: one old entry is unchanged, one has the hash the run
\* recorded, and the ledger gained an entry
C3_Witness ==
    /\ pc = "done"
    /\ \E k \in DOMAIN ledger0.entries : ledger.entries[k] = ledger0.entries[k]
    /\ \E k \in DOMAIN ledger0.entries : ledger.entries[k] # ledger0.entries[k]
    /\ \E k \in DOMAIN ledger.entries : k \notin DOMAIN ledger0.entries

\* the qualifying pairs of C4: a RAW and a JPG record whose stems are equal
\* ignoring case and whose (camera, year, month) keys are equal
QualifyingPairs(list) ==
    { pr \in (1..Len(list)) \X (1..Len(list)) :
        /\ list[pr[1]].type = "RAW" /\ list[pr[2]].type = "JPG"
        /\ StrLower(list[pr[1]].stem) = StrLower(list[pr[2]].stem)
        /\ KeyOf(list[pr[1]]) = KeyOf(list[pr[2]]) }

\* C4: after the first pass the pair counter is the number of qualifying
\* pairs among the records.
C4_PairCounter ==
    pc \in {"pass2", "done"} =>
        stats.raw_jpg_pairs = Cardinality(QualifyingPairs(file_info_list))

\* the records of the group of a record have one category
OneCategory(list, info) ==
    \A k \in 1..Len(list) : KeyOf(list[k]) = KeyOf(info) => list[k].type = info.type

\* C5: no file of a group whose members have one category is placed in a
\* category-named subfolder.
C5_OneCategoryNotSeparated ==
    \A i \in Transfers(run) :
        OneCategory(file_info_list, log[i].info)
            => log[i].folder = BasePath(cfg.organization_scheme, log[i].info.camera,
                                        log[i].info.year, log[i].info.month)

(***************************************************************************)
(* Properties of the metadata specification.                               *)
(***************************************************************************)
\* the folder names of the months, in either format
FullMonths ==
    << "01 - January", "02 - February", "03 - March", "04 - April", "05 - May",
       "06 - June", "07 - July", "08 - August", "09 - September",
       "10 - October", "11 - November", "12 - December" >>

NumberMonths ==
    << "01", "02", "03", "04", "05", "06", "07", "08", "09", "10", "11", "12" >>

MonthText(m) == IF cfg.month_format = "number" THEN NumberMonths[m] ELSE FullMonths[m]

\* the DateTimeOriginal stamps of the model that are of the form
\* YYYY:MM:DD HH:MM:SS, with the year and month they state
ParseableOriginals ==
    { [stamp |-> StampOf(StampDates[1]), year |-> "2024", month |-> 3],
      [stamp |-> StampOf(StampDates[2]), year |-> "1999", month |-> 12],
      [stamp |-> S_unpadded, year |-> "2024", month |-> 3] }

IsVideoEntry(e) == path_facts[e.file].type = "VIDEO"

\* C6: the record of a non-video file whose DateTimeOriginal parses has the
\* year and the month of that tag, whatever the DateTime tag, the
\* modification time, the mode and the operator's responses.
C6_OriginalDateWins ==
    \A k \in 1..Len(trace) : \A o \in ParseableOriginals :
        (/\ ~IsVideoEntry(trace[k])
         /\ ExifGet(FileOf(trace[k].file).exif, "DateTimeOriginal") = o.stamp)
        => /\ trace[k].info.year = o.year
           /\ trace[k].info.month = MonthText(o.month)

\* C6 witness: a non-video file with a DateTimeOriginal of 1999, a DateTime
\* of 2021 and a modification time of 2020 was resolved in interactive mode
\* with the operator naming 2024
C6_Witness ==
    \E k \in 1..Len(trace) :
        LET f == FileOf(trace[k].file)
        IN  /\ ~IsVideoEntry(trace[k])
            /\ ExifGet(f.exif, "DateTimeOriginal") = StampOf(StampDates[2])
            /\ ExifGet(f.exif, "DateTime") = StampOf(DigitizedDate)
            /\ f.mtime = January2020
            /\ trace[k].prompted
            /\ trace[k].resp.year = << "2", "0", "2", "4" >>
            /\ trace[k].resp.month = << "5" >>

\* the year and month of a record are those of the modification time of the
\* model, or the sentinels when the time cannot be read
DateFromMtime(e) ==
    IF FileOf(e.file).mtime = January2020
    THEN e.info.year = "2020" /\ e.info.month = MonthText(1)
    ELSE e.info.year = "UnknownYear" /\ e.info.month = "UnknownMonth"

\* C7 as claimed: no caller reads the EXIF of a video, and the year and
\* month of its record come from the modification time alone.
C7_VideoDateFromMtimeOnly ==
    \A k \in 1..Len(trace) :
        IsVideoEntry(trace[k])
            => trace[k].exif_reads = {} /\ DateFromMtime(trace[k])

\* the operator was asked and typed the year 2024 and the month 5, the one
\* year and the one month of MetaResponses that prompt_for_metadata accepts
TypedMay2024(e) ==
    /\ e.prompted
    /\ e.resp.year = << "2", "0", "2", "4" >>
    /\ e.resp.month = << "5" >>

\* C7 amended: no caller reads the EXIF of a video; the year and month of
\* its record come from the modification time when it can be read; when it
\* cannot, they are the year and month the operator entered at the prompt
\* if both are valid, and UnknownYear and UnknownMonth otherwise.
C7_VideoDateFromMtimeOrOperator ==
    \A k \in 1..Len(trace) :
        IsVideoEntry(trace[k]) =>
            /\ trace[k].exif_reads = {}
            /\ IF FileOf(trace[k].file).mtime = NoDate /\ TypedMay2024(trace[k])
               THEN trace[k].info.year = "2024" /\ trace[k].info.month = MonthText(5)
               ELSE DateFromMtime(trace[k])

\* C7 witness: a video with EXIF tags and a readable modification time was
\* resolved with the operator typing a year and a month
C7_Witness ==
    \E k \in 1..Len(trace) :
        /\ IsVideoEntry(trace[k])
        /\ FileOf(trace[k].file).exif # NoExif
        /\ FileOf(trace[k].file).mtime = January2020
        /\ TypedMay2024(trace[k])

(***************************************************************************)
(* Property of the normalization specification.                            *)
(***************************************************************************)
\* C8: normalizing a normalized name again, as the make or as the model,
\* returns it unchanged.
C8_NormalizeIdempotent ==
    norm.pc = "again" => norm.as_make = norm.out /\ norm.as_model = norm.out

(***************************************************************************)
(* Properties of the metadata specification, continued.                    *)
(***************************************************************************)
\* f"{year:04d}" for every year a datetime can have
FourDigitYears == { Str(Pad(y, 4)) : y \in 1..9999 }

RangeOf(seq) == { seq[i] : i \in 1..Len(seq) }

\* C9: every record of the first pass has a non-empty camera, a year that
\* is four digits or UnknownYear, and a month that is a formatted month or
\* UnknownMonth.
C9_KeysNeverEmpty ==
    \A k \in 1..Len(file_info_list) :
        /\ file_info_list[k].camera # ""
        /\ file_info_list[k].year \in FourDigitYears \cup {"UnknownYear"}
        /\ file_info_list[k].month
              \in RangeOf(FullMonths) \cup RangeOf(NumberMonths) \cup {"UnknownMonth"}

\* C9 witness: records whose camera came out of nothing but a blank and a
\* stripped suffix, out of an operator's lone underscore, and whose date
\* was missing
C9_Witness ==
    \E k \in 1..Len(trace) :
        /\ ExifGet(FileOf(trace[k].file).exif, "Make") = << " " >>
        /\ ExifGet(FileOf(trace[k].file).exif, "Model") = S_Inc
        /\ trace[k].resp.camera = << "_" >>
        /\ trace[k].prompted
        /\ trace[k].info.year = "UnknownYear"
        /\ file_info_list = << trace[k].info >>

(***************************************************************************)
(* Property of the settings specification.                                 *)
(***************************************************************************)
\* the settings file exists and does not hold a JSON object
BadStore(file) ==
    \/ file.kind \in {"garbage", "undecodable"}
    \/ file.kind = "json" /\ file.value.t # "object"

\* C10: load_settings on a settings file that exists and holds no usable
\* JSON object returns exactly the default settings.
C10_BadStoreGivesDefaults ==
    (settings.last = "load" /\ BadStore(settings.file))
        => settings.result = Returned(DEFAULT_SETTINGS)

(***************************************************************************)
(* Properties of runs that abort.                                          *)
(***************************************************************************)
\* the ledger file records this checksum under this key
Recorded(file, key, checksum) ==
    /\ file.kind = "object"
    /\ key \in DOMAIN file.entries
    /\ file.entries[key] = checksum

\* C11: when a copy or move has raised, every file the run transferred
\* before is at its target with its content, and the ledger file of the
\* destination records the checksum of each of them whose checksum could be
\* computed.
C11_TransferredStayRecorded ==
    pc = "failed" =>
        \A i \in Transfers(run) :
            LET f == SourceFile(log[i].file)
            IN  /\ Exists(dest, log[i].target)
                /\ dest[log[i].target] = f.content
                /\ calculate_checksum(f) # ""
                      => Recorded(ledger, RelPath(log[i].target), calculate_checksum(f))

(***************************************************************************)
(* Properties of the order of a run's steps.                               *)
(***************************************************************************)
\* the entries of the first pass of run r, as indices of trace
Resolutions(r) == { k \in 1..Len(trace) : trace[k].run = r }

\* C12: a step that resolves a file (reads its metadata, prompts) is taken
\* in the first pass, before any transfer of the run; a step that writes to
\* the destination resolves nothing and is taken when every file of the
\* source tree with a recognized extension has been resolved.
C12_ResolveBeforeTransfer ==
    [][/\ trace' # trace =>
            /\ pc = "pass1"
            /\ Transfers(run) = {}
            /\ dest' = dest /\ src' = src
       /\ (dest' # dest \/ log' # log) =>
            /\ trace' = trace
            /\ file_info_list' = file_info_list
            /\ Cardinality(Resolutions(run)) = Len(Discovered(files))
            /\ Len(file_info_list) = Len(Discovered(files))]_vars

\* C12 witness: a transfer of a run was made whose first pass resolved two
\* files and prompted for one of them
C12_Witness ==
    /\ Transfers(run) # {}
    /\ Cardinality(Resolutions(run)) >= 2
    /\ \E k \in Resolutions(run) : trace[k].prompted

\* the place of a transferred record in the discovery order of its run
Pos(info) == CHOOSE k \in 1..Len(file_info_list) : file_info_list[k].path = info.path

\* the place in the discovery order of the first record of a group
GroupFirst(key) ==
    CHOOSE k \in 1..Len(file_info_list) :
        /\ KeyOf(file_info_list[k]) = key
        /\ \A m \in 1..(k - 1) : KeyOf(file_info_list[m]) # key

TagDate(f, tag) ==
    IF Truthy(ExifGet(f.exif, tag)) THEN strptime(ExifGet(f.exif, tag)) ELSE NoDate

\* the first date in the order DateTimeOriginal, DateTime, modification
\* time; the tags of a video are not read
PreferredDate(f) ==
    IF ~IsVideo(f) /\ TagDate(f, "DateTimeOriginal") # NoDate
    THEN TagDate(f, "DateTimeOriginal")
    ELSE IF ~IsVideo(f) /\ TagDate(f, "DateTime") # NoDate
    THEN TagDate(f, "DateTime")
    ELSE MtimeDate(f)

\* C14: get_date_taken returns the first date there is in the order
\* DateTimeOriginal, DateTime, modification time, a tag that does not parse
\* counting as absent; NoDate when there is none.
C14_DatePreferenceOrder ==
    \A k \in 1..Len(trace) :
        dates_taken[trace[k].file].value = PreferredDate(FileOf(trace[k].file))

\* the year and month a record has for a date
YearText(d) == Str(Pad(d.year, 4))

DateMonthText(d) == Str(format_month_name(d.month, cfg.month_format))

\* C15 as claimed: the record of a file for which the operator was asked
\* and entered a valid year and month has that year and that month.
C15_PromptedDateUsed ==
    \A k \in 1..Len(trace) :
        TypedMay2024(trace[k])
            => trace[k].info.year = "2024" /\ trace[k].info.month = MonthText(5)

\* C15 amended: the record of a file for which the operator was asked and
\* entered a valid year and month has that year and that month when no
\* timestamp was found for the file, and the year and month of the timestamp
\* found otherwise.
C15_PromptedDateUsedWhenMissing ==
    \A k \in 1..Len(trace) :
        LET found == dates_taken[trace[k].file].value
        IN  TypedMay2024(trace[k]) =>
                IF found = NoDate
                THEN /\ trace[k].info.year = "2024"
                     /\ trace[k].info.month = MonthText(5)
                ELSE /\ trace[k].info.year = YearText(found)
                     /\ trace[k].info.month = DateMonthText(found)

\* C15 witness: the operator was asked because no timestamp was found for a
\* file whose camera is known, and entered a valid year and month
C15_Witness ==
    \E k \in 1..Len(trace) :
        /\ TypedMay2024(trace[k])
        /\ dates_taken[trace[k].file].value = NoDate
        /\ camera_names[trace[k].file].value # UnknownCamera
        /\ trace[k].info.year = "2024"

\* the first pass has just resolved the one file of the source tree
ResolvedOne ==
    /\ pc = "pass1" /\ idx = 2
    /\ Len(file_info_list) = 1
    /\ trace # << >> /\ trace[Len(trace)].run = run

\* the year or the month prompt_for_metadata returns for a response is the
\* sentinel: the operator's line was empty or invalid
DateUnanswered(resp) ==
    \/ answers[resp, cfg.month_format].year = UnknownYear
    \/ answers[resp, cfg.month_format].month = UnknownMonth

\* C16 as claimed: a file for which the operator was asked and left the year
\* or the month empty or invalid adds exactly one to the missing-date
\* counter.
C16_UnansweredCountsMissingDate ==
    (ResolvedOne /\ trace[Len(trace)].prompted /\ DateUnanswered(trace[Len(trace)].resp))
        => stats.files_no_date = 1

\* C16 amended: a file for which the operator was asked adds exactly one to
\* the missing-date counter when no timestamp was found for it and the year
\* or the month was left empty or invalid, whatever the camera response, and
\* nothing otherwise.
C16_UnansweredCountsWhenMissing ==
    (ResolvedOne /\ trace[Len(trace)].prompted) =>
        LET e == trace[Len(trace)]
        IN  stats.files_no_date =
                IF dates_taken[e.file].value = NoDate /\ DateUnanswered(e.resp)
                THEN 1 ELSE 0

\* C16 witness: no timestamp was found for a file, the operator named a
\* camera and typed a year that is out of range, and the file was counted
C16_Witness ==
    /\ ResolvedOne
    /\ trace[Len(trace)].prompted
    /\ dates_taken[trace[Len(trace)].file].value = NoDate
    /\ trace[Len(trace)].resp.camera # << >>
    /\ trace[Len(trace)].resp.year = << "1", "8", "9", "9" >>
    /\ stats.files_no_date = 1

(***************************************************************************)
(* Properties of the second pass.                                          *)
(***************************************************************************)
\* the second pass is about to handle a file
AtTransfer == pc = "pass2" /\ idx <= Len(plan)

\* the file the second pass is about to handle
Current == FileAt(src, file_info_list[plan[idx]].path)

\* the step transfers the current file to a new path of the destination,
\* counts it and goes on to the next file
TransfersCurrent ==
    /\ \E p \in DOMAIN dest' \ DOMAIN dest :
          /\ dest' = DictUpdate(dest, (p :> FileOf(Current).content))
          /\ log' = Append(log, log'[Len(log')])
          /\ log'[Len(log')].file = Current /\ log'[Len(log')].target = p
    /\ stats'.files_processed = stats.files_processed + 1
    /\ pc' = "pass2" /\ idx' = idx + 1

\* C17 as claimed: a step of the second pass on a file whose read in
\* calculate_checksum fails transfers the file, counts it, adds no entry to
\* the run's checksum log and goes on to the next file.
C17_ChecksumFailureStillTransfers ==
    [][(AtTransfer /\ ~SourceFile(Current).readable)
          => TransfersCurrent /\ stats'.checksum_log = stats.checksum_log]_vars

\* C17 amended: a step of the second pass on a file whose read in
\* calculate_checksum fails adds no entry to the run's checksum log; when the
\* copy or move itself does not raise, the file is transferred and counted
\* and the run goes on to the next file; when it raises, the run aborts and
\* the file is not counted.
C17_ChecksumFailureOmitsEntry ==
    [][(AtTransfer /\ ~SourceFile(Current).readable) =>
          /\ stats'.checksum_log = stats.checksum_log
          /\ IF Current \notin faults.copy
             THEN TransfersCurrent
             ELSE /\ pc' = "failed"
                  /\ stats'.files_processed = stats.files_processed
                  /\ log' = log]_vars

\* C17 witness: a file whose checksum could not be computed was transferred
\* without an entry in the run's checksum log, and the file after it was
\* transferred with one
C17_Witness ==
    \E i, j \in Transfers(run) :
        /\ i < j
        /\ log[i].file \in faults.sum
        /\ dest[log[i].target] = FileOf(log[i].file).content
        /\ RelPath(log[i].target) \notin DOMAIN stats.checksum_log
        /\ RelPath(log[j].target) \in DOMAIN stats.checksum_log
        /\ stats.files_processed = Cardinality(Transfers(run))

\* the folder the scheme gives a record, below the destination root
SchemeFolder(info) ==
    CASE cfg.organization_scheme = "year_month" -> << info.year, info.month >>
      [] cfg.organization_scheme = "year_month_camera"
            -> << info.year, info.month, info.camera >>
      [] OTHER -> << info.camera, info.year, info.month >>

\* the categories of the records of the run that are in the group of info
GroupTypes(info) ==
    { file_info_list[k].type :
        k \in { m \in 1..Len(file_info_list) :
                  /\ file_info_list[m].camera = info.camera
                  /\ file_info_list[m].year = info.year
                  /\ file_info_list[m].month = info.month } }

FolderOf(path) == SubSeq(path, 1, Len(path) - 1)

\* C19: the path a step of the second pass creates in the destination is
\* the first unused one of name.ext, name_1.ext, name_2.ext, ... in its
\* folder: name.ext when that did not exist, and otherwise the name_i.ext
\* that did not exist while name.ext and every name_j.ext, 1 <= j < i, did.
C19_FirstUnusedName ==
    [][\A p \in DOMAIN dest' \ DOMAIN dest :
          LET name == FileOf(Current).name
              plain == Append(FolderOf(p), Str(name))
          IN  /\ AtTransfer
              /\ IF plain \notin DOMAIN dest
                 THEN p = plain
                 ELSE \E i \in 1..Cardinality(DOMAIN dest) :
                         /\ p = Candidate(FolderOf(p), name, i)
                         /\ TriedBefore(FolderOf(p), name, i) \subseteq DOMAIN dest]_vars

\* C19 witness: a.jpg and a_2.jpg were in the folder before the run; of two
\* source files named a.jpg the first became a_1.jpg and the second a_3.jpg
C19_Witness ==
    /\ NikonTarget \in DOMAIN dest /\ dest[NikonTarget] = "c0"
    /\ NikonSecond \in DOMAIN dest /\ dest[NikonSecond] = "c8"
    /\ \E i, j \in Transfers(run) :
          /\ i < j
          /\ log[i].target = Candidate(FolderOf(NikonTarget), S_a_jpg, 1)
          /\ log[j].target = Candidate(FolderOf(NikonTarget), S_a_jpg, 3)

(***************************************************************************)
(* Properties of the statistics of a completed run.                        *)
(***************************************************************************)
\* the sum of the counts of a histogram
RECURSIVE SumOf(_)
SumOf(d) ==
    IF DOMAIN d = {} THEN 0
    ELSE LET k == CHOOSE x \in DOMAIN d : TRUE
         IN  d[k] + SumOf([x \in DOMAIN d \ {k} |-> d[x]])

\* the transfers of the run that carried source file id
TransfersOf(id) == { i \in Transfers(run) : log[i].file = id }

\* C20: when a run is complete, the processed counter, the number of
\* records of the first pass and the sum of the camera histogram are equal;
\* every file of the walk with a recognized extension has one record, one
\* place in the order of the second pass and one transfer; a file without a
\* recognized extension has no record and no transfer.
C20_ProcessedEqualsRecords ==
    pc = "done" =>
        /\ stats.files_processed = Len(file_info_list)
        /\ SumOf(stats.cameras) = Len(file_info_list)
        /\ Cardinality(Transfers(run)) = Len(file_info_list)
        /\ Len(plan) = Len(file_info_list)
        /\ { plan[k] : k \in 1..Len(plan) } = 1..Len(file_info_list)
        /\ \A n \in 1..Len(files) :
              LET id == files[n]
                  records == { k \in 1..Len(file_info_list) :
                                 file_info_list[k].path = << FileOf(id).dir,
                                                             Str(FileOf(id).name) >> }
              IN  IF SuffixLower(FileOf(id)) = << ".", "t", "x", "t" >>
                  THEN records = {} /\ TransfersOf(id) = {}
                  ELSE /\ Cardinality(records) = 1
                       /\ Cardinality(TransfersOf(id)) = 1
                       /\ Cardinality({ k \in 1..Len(plan) : plan[k] \in records }) = 1

\* C20 witness: a run is complete whose source tree held two files of one
\* camera, a file of another group and a text file
C20_Witness ==
    /\ pc = "done"
    /\ stats.files_processed = 2
    /\ Len(files) = 3
    /\ \E n \in 1..Len(files) : ~recognized[files[n]]
    /\ \E c \in DOMAIN stats.cameras : stats.cameras[c] = 2

(***************************************************************************)
(* Property of what a run leaves in the two trees.                         *)
(***************************************************************************)
\* the files of the source tree, as a set
InSource == { src[k] : k \in 1..Len(src) }

====
